---- MODULE Spec2Model ----
(***************************************************************************)
(* Model of KipDB's LRU cache (src/kernel/utils/lru_cache.rs): the single  *)
(* shard LruCache (intrusive doubly linked list + hash index over heap     *)
(* nodes) and the ShardingLruCache wrapper with one mutex per shard.       *)
(***************************************************************************)
EXTENDS Integers, Sequences, FiniteSets, TLC

\* ---------------------------------------------------------------- bounds
MaxKey == 3
MaxVal == 2
MaxNodes == 4
MaxCap == 3
\* the sharded cache: threads, shards, entries per shard, largest hasher seed
NumThreads == 2
NumShards == 2
MaxShardCap == 1
MaxSeed == 0
\* the constructor: the arguments tried
MaxNewCap == 12
MaxNewShards == 4

Keys == 1..MaxKey
Vals == 1..MaxVal
NodeIds == 1..MaxNodes

\* Option<NodeReadPtr>::None
NULL == 0
\* Option<V>: None is the empty sequence, Some(v) a singleton
None == <<>>
Some(v) == <<v>>
\* a factory that returns Err(..) instead of Ok(v)
FactoryErr == 0

\* a heap cell that holds no node (never allocated, or given back by Box::from_raw)
FreeCell == [key |-> 0, value |-> 0, prev |-> NULL, next |-> NULL]

VARIABLES
  lru,      \* the LruCache: [head, tail, inner, cap]
  mem,      \* the heap: node id -> Node {key, value, prev, next}
  live,     \* node ids allocated by Box::new and not yet given back
  op,       \* the last completed call: its name, arguments and result
  touched,  \* history: the keys in the order of their last touch, oldest first
  ks,       \* history of a fill: the keys put so far into a new cache
  sharding_vec, \* ShardingLruCache.sharding_vec: the LruCache inside each Mutex
  locks,    \* the Mutex of each shard: the thread that holds it, or 0
  hasher,   \* ShardingLruCache.hasher: the seed of the BuildHasher
  thr,      \* each thread's position in its call: [pc, key]
  shadow,   \* history: each shard's calls run one after another on a heap of its own
  agree,    \* history: every call returned what its run on the shadow returned
  made,     \* history: the factory calls for one key since it was last taken out
  built,    \* ShardingLruCache::new: its arguments and its result
  vec_score, \* the scores handed to Score::meet and Score::fusion
  scored,   \* the last Score call: its name and its result
  args,     \* SsTable::create_for_immutable_table: vec_mem_data, config.part_size, level
  io_handler, \* IOHandler: the content of the file and its gen
  ss_table, \* the SsTable that create_for_immutable_table returned
  restored, \* the SsTable that restore_from_file returned
  queried,  \* the last SsTable::query: the table asked, the key, the result
  refs,     \* the node behind the &V each thread holds from get / get_or_insert, or NULL
  scan      \* the call of ShardingLruCache::is_empty: its position, result and history

cacheVars == <<lru, mem, live, op, touched>>
shardVars == <<sharding_vec, locks, hasher, thr, shadow, agree, made>>
scoreVars == <<vec_score, scored>>
tableVars == <<args, io_handler, ss_table, restored, queried>>
lsmVars == <<scoreVars, tableVars>>
useVars == <<refs, scan>>
vars == <<lru, mem, live, op, touched, ks, sharding_vec, locks, hasher, thr, shadow, agree,
          made, built, vec_score, scored, args, io_handler, ss_table, restored, queried, refs,
          scan>>

\* no Score and no SsTable in use
NoLsm ==
  /\ vec_score = <<>> /\ scored = <<>>
  /\ args = <<>> /\ io_handler = <<>> /\ ss_table = <<>> /\ restored = <<>> /\ queried = <<>>

\* no reference handed out and no is_empty under way
NoUse == refs = <<>> /\ scan = <<>>

\* ------------------------------------------------------- heap and index
\* Node::new
Node_new(key, value) == [key |-> key, value |-> value, prev |-> NULL, next |-> NULL]

\* a world is the cache together with the heap its raw pointers point into
World(c, m, l) ==
  [head |-> c.head, tail |-> c.tail, inner |-> c.inner, cap |-> c.cap, mem |-> m, live |-> l]
CacheOf(w) == [head |-> w.head, tail |-> w.tail, inner |-> w.inner, cap |-> w.cap]

\* Box::leak(Box::new(..)): the allocator hands out an unused address
FreshNode(w) == CHOOSE n \in NodeIds \ w.live : \A o \in NodeIds \ w.live : n <= o
Box_new(w, key, value) ==
  LET n == FreshNode(w)
  IN [w EXCEPT !.live = @ \cup {n}, !.mem[n] = Node_new(key, value)]

\* Box::from_raw(node) dropped at the end of the closure
Box_from_raw(w, node) == [w EXCEPT !.live = @ \ {node}, !.mem[node] = FreeCell]

\* HashMap<KeyRef, NodeReadPtr>: entries [kref, node]; KeyRef hashes and
\* compares through the node's key
hm_entries(w, key) == {e \in w.inner : w.mem[e.kref].key = key}
hm_get(w, key) ==
  IF hm_entries(w, key) = {} THEN NULL ELSE (CHOOSE e \in hm_entries(w, key) : TRUE).node
hm_remove(w, key) == [w EXCEPT !.inner = @ \ hm_entries(w, key)]
hm_insert(w, kref, node) ==
  LET same == hm_entries(w, w.mem[kref].key)
  IN IF same = {}
     THEN [w EXCEPT !.inner = @ \cup {[kref |-> kref, node |-> node]}]
     ELSE [w EXCEPT !.inner = (@ \ same) \cup {[kref |-> e.kref, node |-> node] : e \in same}]
hm_len(w) == Cardinality(w.inner)

\* ------------------------------------------------------------- LruCache
LruCache_new(cap) ==
  IF cap < 1 THEN [ok |-> FALSE, err |-> "CacheSizeOverFlow"]
  ELSE [ok |-> TRUE, cache |-> [head |-> NULL, tail |-> NULL, inner |-> {}, cap |-> cap]]

\* detach that leaves head alone when it unlinks the first node
detach_keeps_head(w, node) ==
  LET prev == w.mem[node].prev
      w1 == IF prev # NULL THEN [w EXCEPT !.mem[prev].next = w.mem[node].next] ELSE w
      next == w1.mem[node].next
      w2 == IF next # NULL THEN [w1 EXCEPT !.mem[next].prev = w1.mem[node].prev]
                           ELSE [w1 EXCEPT !.tail = w1.mem[node].prev]
  IN [w2 EXCEPT !.mem[node].prev = NULL, !.mem[node].next = NULL]

detach(w, node) ==
  LET prev == w.mem[node].prev
      w1 == IF prev # NULL THEN [w EXCEPT !.mem[prev].next = w.mem[node].next]
                           ELSE [w EXCEPT !.head = w.mem[node].next]
      next == w1.mem[node].next
      w2 == IF next # NULL THEN [w1 EXCEPT !.mem[next].prev = w1.mem[node].prev]
                           ELSE [w1 EXCEPT !.tail = w1.mem[node].prev]
  IN [w2 EXCEPT !.mem[node].prev = NULL, !.mem[node].next = NULL]

\* attach that does not point the old head back at the new one
attach_no_back_link(w, node) ==
  IF w.head # NULL
  THEN LET head == w.head
           w2 == [w EXCEPT !.mem[node].next = head]
           w3 == [w2 EXCEPT !.mem[node].prev = NULL]
       IN [w3 EXCEPT !.head = node]
  ELSE LET w1 == [w EXCEPT !.mem[node].prev = NULL]
           w2 == [w1 EXCEPT !.mem[node].next = NULL]
       IN [w2 EXCEPT !.head = node, !.tail = node]

attach(w, node) ==
  IF w.head # NULL
  THEN LET head == w.head
           w1 == [w EXCEPT !.mem[head].prev = node]
           w2 == [w1 EXCEPT !.mem[node].next = head]
           w3 == [w2 EXCEPT !.mem[node].prev = NULL]
       IN [w3 EXCEPT !.head = node]
  ELSE LET w1 == [w EXCEPT !.mem[node].prev = NULL]
           w2 == [w1 EXCEPT !.mem[node].next = NULL]
       IN [w2 EXCEPT !.head = node, !.tail = node]

\* expulsion that pushes out the head, the most recently used node
expulsion_head(w) ==
  IF w.head # NULL /\ hm_len(w) >= w.cap
  THEN LET head == w.head
           w1 == detach(w, head)
       IN [w |-> hm_remove(w1, w1.mem[head].key), evicted |-> head]
  ELSE [w |-> w, evicted |-> NULL]

\* expulsion that makes room one entry too early
expulsion_early(w) ==
  IF w.tail # NULL /\ hm_len(w) + 1 >= w.cap
  THEN LET tail == w.tail
           w1 == detach(w, tail)
       IN [w |-> hm_remove(w1, w1.mem[tail].key), evicted |-> tail]
  ELSE [w |-> w, evicted |-> NULL]

\* expulsion that unlinks the tail and leaves its entry in the index
expulsion_keeps_index(w) ==
  IF w.tail # NULL /\ hm_len(w) >= w.cap
  THEN LET tail == w.tail
       IN [w |-> detach(w, tail), evicted |-> tail]
  ELSE [w |-> w, evicted |-> NULL]

\* returns the world and the node it pushed out (NULL when none)
expulsion(w) ==
  IF w.tail # NULL /\ hm_len(w) >= w.cap
  THEN LET tail == w.tail
           w1 == detach(w, tail)
       IN [w |-> hm_remove(w1, w1.mem[tail].key), evicted |-> tail]
  ELSE [w |-> w, evicted |-> NULL]

\* put that makes room before it takes the old node of the key out
put_evicts_first(w, key, value) ==
  LET w0 == Box_new(w, key, value)
      node == FreshNode(w)
      ex == expulsion(w0)
      old_node == hm_get(ex.w, key)
      w1 == IF old_node # NULL THEN detach(hm_remove(ex.w, key), old_node) ELSE ex.w
      w2 == attach(w1, node)
      w3 == hm_insert(w2, node, node)
  IN IF old_node # NULL
     THEN [w |-> Box_from_raw(w3, old_node), ret |-> Some(w3.mem[old_node].value),
           node |-> node, old |-> old_node, evicted |-> ex.evicted]
     ELSE [w |-> w3, ret |-> None, node |-> node, old |-> NULL, evicted |-> ex.evicted]

put(w, key, value) ==
  LET w0 == Box_new(w, key, value)
      node == FreshNode(w)
      old_node == hm_get(w0, key)
      w1 == IF old_node # NULL THEN detach(hm_remove(w0, key), old_node) ELSE w0
      ex == expulsion(w1)
      w2 == attach(ex.w, node)
      w3 == hm_insert(w2, node, node)
  IN IF old_node # NULL
     THEN [w |-> Box_from_raw(w3, old_node), ret |-> Some(w3.mem[old_node].value),
           node |-> node, old |-> old_node, evicted |-> ex.evicted]
     ELSE [w |-> w3, ret |-> None, node |-> node, old |-> NULL, evicted |-> ex.evicted]

get_node(w, key) ==
  LET node == hm_get(w, key)
  IN IF node # NULL
     THEN [w |-> attach(detach(w, node), node), node |-> node]
     ELSE [w |-> w, node |-> NULL]

get(w, key) ==
  LET node == hm_get(w, key)
  IN IF node # NULL
     THEN LET w1 == attach(detach(w, node), node)
          IN [w |-> w1, ret |-> Some(w1.mem[node].value), node |-> node]
     ELSE [w |-> w, ret |-> None, node |-> NULL]

remove(w, key) ==
  LET node == hm_get(w, key)
  IN IF node # NULL
     THEN LET w1 == detach(hm_remove(w, key), node)
          IN [w |-> Box_from_raw(w1, node), ret |-> Some(w1.mem[node].value), node |-> node]
     ELSE [w |-> w, ret |-> None, node |-> NULL]

\* get_or_insert_node that does not move a hit node to the head
get_or_insert_node_no_promote(w, key, fn_once) ==
  LET hit == hm_get(w, key)
  IN IF hit # NULL
     THEN [w |-> w, ok |-> TRUE, node |-> hit, calls |-> 0, evicted |-> NULL]
     ELSE IF fn_once = FactoryErr
     THEN [w |-> w, ok |-> FALSE, node |-> NULL, calls |-> 1, evicted |-> NULL]
     ELSE LET w0 == Box_new(w, key, fn_once)
              node == FreshNode(w)
              ex == expulsion(w0)
              w2 == attach(ex.w, node)
              w3 == hm_insert(w2, node, node)
          IN [w |-> w3, ok |-> TRUE, node |-> node, calls |-> 1, evicted |-> ex.evicted]

\* get_or_insert_node that makes room before it calls the factory
get_or_insert_node_room_first(w, key, fn_once) ==
  LET hit == hm_get(w, key)
  IN IF hit # NULL
     THEN [w |-> attach(detach(w, hit), hit), ok |-> TRUE, node |-> hit,
           calls |-> 0, evicted |-> NULL]
     ELSE LET ex == expulsion(w)
          IN IF fn_once = FactoryErr
             THEN [w |-> ex.w, ok |-> FALSE, node |-> NULL, calls |-> 1, evicted |-> NULL]
             ELSE LET w0 == Box_new(ex.w, key, fn_once)
                      node == FreshNode(ex.w)
                      w2 == attach(w0, node)
                      w3 == hm_insert(w2, node, node)
                  IN [w |-> w3, ok |-> TRUE, node |-> node, calls |-> 1,
                      evicted |-> ex.evicted]

\* fn_once is the value the factory yields when it is called (FactoryErr: it fails)
get_or_insert_node(w, key, fn_once) ==
  LET hit == hm_get(w, key)
  IN IF hit # NULL
     THEN [w |-> attach(detach(w, hit), hit), ok |-> TRUE, node |-> hit,
           calls |-> 0, evicted |-> NULL]
     ELSE IF fn_once = FactoryErr
     THEN [w |-> w, ok |-> FALSE, node |-> NULL, calls |-> 1, evicted |-> NULL]
     ELSE LET w0 == Box_new(w, key, fn_once)
              node == FreshNode(w)
              ignore == hm_get(w0, key)
              w1 == IF ignore # NULL THEN detach(hm_remove(w0, key), ignore) ELSE w0
              ex == expulsion(w1)
              w2 == attach(ex.w, node)
              w3 == hm_insert(w2, node, node)
          IN [w |-> w3, ok |-> TRUE, node |-> node, calls |-> 1, evicted |-> ex.evicted]

get_or_insert(w, key, fn_once) ==
  LET r == get_or_insert_node(w, key, fn_once)
  IN [w |-> r.w, ok |-> r.ok, ret |-> IF r.ok THEN Some(r.w.mem[r.node].value) ELSE None,
      node |-> r.node, calls |-> r.calls, evicted |-> r.evicted]

len(w) == hm_len(w)
is_empty(w) == w.inner = {}

\* --------------------------------------------------------- observations
\* the nodes met walking next from head (at most MaxNodes steps)
RECURSIVE Walk(_, _, _)
Walk(m, n, fuel) ==
  IF n = NULL \/ fuel = 0 THEN <<>> ELSE <<n>> \o Walk(m, m[n].next, fuel - 1)
ListNodes(c, m) == Walk(m, c.head, MaxNodes)
\* the keys in recency order, most recently used first
ListKeys(c, m) == [i \in 1..Len(ListNodes(c, m)) |-> m[ListNodes(c, m)[i]].key]
\* the keys a lookup finds, and what it finds for them
Resident(c, m) == {m[e.kref].key : e \in c.inner}
ValueOf(c, m, k) == LET w == World(c, m, {}) IN m[hm_get(w, k)].value
Range(s) == {s[i] : i \in 1..Len(s)}
SelectSeq2(s, x) == SelectSeq(s, LAMBDA y : y # x)

\* history: move key to the young end of the touch order
Touch(t, key) == Append(SelectSeq2(t, key), key)

\* the least recently touched of the keys in R
LeastRecentlyTouched(t, R) ==
  LET idx == {i \in 1..Len(t) : t[i] \in R}
  IN t[CHOOSE i \in idx : \A j \in idx : i <= j]

\* the cells some pointer of the cache still leads to
RECURSIVE Closure(_, _, _)
Closure(m, S, fuel) ==
  LET T == (S \cup {m[n].prev : n \in S} \cup {m[n].next : n \in S}) \ {NULL}
  IN IF fuel = 0 \/ T = S THEN S ELSE Closure(m, T, fuel - 1)
Reachable(w) ==
  Closure(w.mem, ({w.head, w.tail} \cup {e.kref : e \in w.inner} \cup {e.node : e \in w.inner})
                 \ {NULL}, MaxNodes)
\* The state keeps the content of the cells a pointer leads to; of a cell that nothing
\* points to any more (a node expulsion dropped without giving it back) it keeps only
\* that it is still allocated (live): no operation can read it again.
HeapView(w) == [n \in NodeIds |-> IF n \in Reachable(w) THEN w.mem[n] ELSE FreeCell]

\* val: the value put, or the value the factory made in this call (0: none)
NoOp == [name |-> "none", key |-> 0, val |-> 0, ret |-> None, ok |-> TRUE, hit |-> FALSE,
         evicted |-> 0, calls |-> 0]
EvictedKey(m, n) == IF n = NULL THEN 0 ELSE m[n].key

\* ------------------------------------------------------ Spec: one cache
Init ==
  /\ \E cap \in 1..MaxCap : lru = LruCache_new(cap).cache
  /\ mem = [n \in NodeIds |-> FreeCell]
  /\ live = {}
  /\ op = NoOp
  /\ touched = <<>>
  /\ ks = <<>>
  /\ sharding_vec = <<>> /\ locks = <<>> /\ hasher = 0 /\ thr = <<>>
  /\ shadow = <<>> /\ agree = TRUE /\ made = <<>> /\ built = <<>>
  /\ NoLsm
  /\ NoUse

\* the cache and the heap after a call
Becomes(w) ==
  /\ lru' = CacheOf(w)
  /\ mem' = HeapView(w)
  /\ live' = w.live

PutStep(key, value) ==
  /\ live # NodeIds
  /\ \E r \in {put(World(lru, mem, live), key, value)} :
        /\ Becomes(r.w)
        /\ op' = [name |-> "put", key |-> key, val |-> value, ret |-> r.ret, ok |-> TRUE,
                  hit |-> r.old # NULL, evicted |-> EvictedKey(r.w.mem, r.evicted), calls |-> 0]
        /\ touched' = Touch(touched, key)

LruPut(key, value) == PutStep(key, value) /\ UNCHANGED <<ks, shardVars, built, lsmVars, useVars>>

LruGet(key) ==
  /\ \E r \in {get(World(lru, mem, live), key)} :
        /\ Becomes(r.w)
        /\ op' = [name |-> "get", key |-> key, val |-> 0, ret |-> r.ret, ok |-> TRUE,
                  hit |-> r.node # NULL, evicted |-> 0, calls |-> 0]
        /\ touched' = IF r.node # NULL THEN Touch(touched, key) ELSE touched
  /\ UNCHANGED <<ks, shardVars, built, lsmVars, useVars>>

LruRemove(key) ==
  /\ \E r \in {remove(World(lru, mem, live), key)} :
        /\ Becomes(r.w)
        /\ op' = [name |-> "remove", key |-> key, val |-> 0, ret |-> r.ret, ok |-> TRUE,
                  hit |-> r.node # NULL, evicted |-> 0, calls |-> 0]
        /\ touched' = touched
  /\ UNCHANGED <<ks, shardVars, built, lsmVars, useVars>>

LruGetOrInsert(key, fn_once) ==
  /\ (hm_get(World(lru, mem, live), key) = NULL /\ fn_once # FactoryErr) => live # NodeIds
  /\ \E r \in {get_or_insert(World(lru, mem, live), key, fn_once)} :
        /\ Becomes(r.w)
        /\ op' = [name |-> "get_or_insert", key |-> key,
                  val |-> IF r.ok /\ r.calls = 1 THEN fn_once ELSE 0, ret |-> r.ret, ok |-> r.ok,
                  hit |-> r.calls = 0, evicted |-> EvictedKey(r.w.mem, r.evicted),
                  calls |-> r.calls]
        /\ touched' = IF r.ok THEN Touch(touched, key) ELSE touched
  /\ UNCHANGED <<ks, shardVars, built, lsmVars, useVars>>

Next ==
  \/ \E k \in Keys, v \in Vals : LruPut(k, v)
  \/ \E k \in Keys : LruGet(k)
  \/ \E k \in Keys : LruRemove(k)
  \/ \E k \in Keys, f \in {FactoryErr} \cup Vals : LruGetOrInsert(k, f)

Spec == Init /\ [][Next]_vars

\* ---------------------------------------- SpecFill: puts into a new cache
MaxFill == MaxCap + 1
FillPut(key, value) ==
  /\ Len(ks) < MaxFill
  /\ PutStep(key, value)
  /\ ks' = Append(ks, key)
  /\ UNCHANGED <<shardVars, built, lsmVars, useVars>>
NextFill == \E k \in Keys, v \in Vals : FillPut(k, v)
SpecFill == Init /\ [][NextFill]_vars

\* ------------------------------------------------------ ShardingLruCache
\* a lock that never makes a thread wait
can_lock_always(l, i) == TRUE

\* parking_lot Mutex::lock returns once no thread holds the mutex
can_lock(l, i) == l[i] = 0

\* ShardingLruCache::new that gives every shard the whole capacity
ShardingLruCache_new_whole(cap, sharding_size) ==
  IF cap % sharding_size # 0
  THEN [ok |-> FALSE, err |-> "ShardingNotAlign", sharding_vec |-> <<>>]
  ELSE LET one == LruCache_new(cap)
       IN IF ~one.ok
          THEN [ok |-> FALSE, err |-> one.err, sharding_vec |-> <<>>]
          ELSE [ok |-> TRUE, err |-> "", sharding_vec |-> [i \in 1..sharding_size |-> one.cache]]

ShardingLruCache_new(cap, sharding_size) ==
  IF cap % sharding_size # 0
  THEN [ok |-> FALSE, err |-> "ShardingNotAlign", sharding_vec |-> <<>>]
  ELSE LET sharding_cap == cap \div sharding_size
           one == LruCache_new(sharding_cap)
       IN IF ~one.ok
          THEN [ok |-> FALSE, err |-> one.err, sharding_vec |-> <<>>]
          ELSE [ok |-> TRUE, err |-> "", sharding_vec |-> [i \in 1..sharding_size |-> one.cache]]

sharding_size(vec) == Len(vec)

\* hasher.finish() of a fresh hasher state fed the key: some function of seed and key
finish(seed, key) == key * (seed + 1) + 1

\* shard that takes the index from the key alone, whatever the hasher
shard_unhashed(seed, key, vec) == (key % sharding_size(vec)) + 1 + 0 * seed

\* the position in sharding_vec of the shard of key (positions count from 1)
shard(seed, key, vec) == (finish(seed, key) % sharding_size(vec)) + 1

\* the sharded calls on the locked shard, with what they hand back:
\* ok, the Option value, the node behind a reference, factory calls, evicted node
Sharding_get(w, key) ==
  LET r == get_node(w, key)
  IN [w |-> r.w, ok |-> TRUE,
      ret |-> IF r.node # NULL THEN Some(r.w.mem[r.node].value) ELSE None,
      node |-> r.node, calls |-> 0, evicted |-> NULL]
Sharding_put(w, key, value) ==
  LET r == put(w, key, value)
  IN [w |-> r.w, ok |-> TRUE, ret |-> r.ret, node |-> NULL, calls |-> 0,
      evicted |-> r.evicted]
Sharding_remove(w, key) ==
  LET r == remove(w, key)
  IN [w |-> r.w, ok |-> TRUE, ret |-> r.ret, node |-> NULL, calls |-> 0, evicted |-> NULL]
\* Sharding_get_or_insert that does not look the key up: it calls the factory at once
Sharding_get_or_insert_unchecked(w, key, fn_once) ==
  IF fn_once = FactoryErr
  THEN [w |-> w, ok |-> FALSE, ret |-> None, node |-> NULL, calls |-> 1, evicted |-> NULL]
  ELSE LET r == put(w, key, fn_once)
       IN [w |-> r.w, ok |-> TRUE, ret |-> Some(fn_once), node |-> r.node, calls |-> 1,
           evicted |-> r.evicted]

Sharding_get_or_insert(w, key, fn_once) ==
  LET r == get_or_insert_node(w, key, fn_once)
  IN [w |-> r.w, ok |-> r.ok, ret |-> IF r.ok THEN Some(r.w.mem[r.node].value) ELSE None,
      node |-> r.node, calls |-> r.calls, evicted |-> r.evicted]

Ops == {"get", "put", "remove", "get_or_insert"}
\* the value argument of a put, the outcome of the factory of a get_or_insert
Args(o) == CASE o = "put" -> Vals
             [] o = "get_or_insert" -> {FactoryErr} \cup Vals
             [] OTHER -> {0}
Run(o, w, key, arg) ==
  CASE o = "get" -> Sharding_get(w, key)
    [] o = "put" -> Sharding_put(w, key, arg)
    [] o = "remove" -> Sharding_remove(w, key)
    [] o = "get_or_insert" -> Sharding_get_or_insert(w, key, arg)
\* the call will allocate a node
Allocates(o, w, key, arg) ==
  \/ o = "put"
  \/ o = "get_or_insert" /\ hm_get(w, key) = NULL /\ arg # FactoryErr

Threads == 1..NumThreads
Shards == 1..NumShards
\* a thread is idle, waits for the lock of the shard of its key, or holds it
Idle == [pc |-> "idle", key |-> 0]
NoHeap == [n \in NodeIds |-> FreeCell]
Min2(n) == IF n > 2 THEN 2 ELSE n
\* History of the get_or_insert calls for one key (key; 0: none is followed), since the key
\* was last taken out of the cache or since the start. fresh: the key was absent then;
\* inv: factory calls; val: the value a factory made (0: none yet); got: calls that
\* returned Ok; bad: one of them returned another value than val; late: a factory was
\* called after one had made a value; race: a call for the key waited for the lock while
\* the get_or_insert that made the value ran
NoCalls(k, absent) == [key |-> k, fresh |-> absent, inv |-> 0, val |-> 0, got |-> 0,
                       bad |-> FALSE, late |-> FALSE, race |-> FALSE]

\* the cells some pointer of some shard leads to
ReachableAll(vec, m) == UNION {Reachable(World(vec[j], m, {})) : j \in 1..Len(vec)}
ShardedHeapView(vec, m) == [n \in NodeIds |-> IF n \in ReachableAll(vec, m) THEN m[n] ELSE FreeCell]

\* the sharded cache as new built it, no thread in a call
InitShards(followed) ==
  /\ lru = LruCache_new(1).cache
  /\ mem = NoHeap
  /\ live = {}
  /\ op = NoOp /\ touched = <<>> /\ ks = <<>>
  /\ \E c \in 1..MaxShardCap :
       /\ built = [cap |-> c * NumShards, size |-> NumShards, done |-> TRUE, ok |-> TRUE,
                   err |-> ""]
       /\ sharding_vec = ShardingLruCache_new(c * NumShards, NumShards).sharding_vec
  /\ hasher \in 0..MaxSeed
  /\ locks = [i \in Shards |-> 0]
  /\ thr = [t \in Threads |-> Idle]
  /\ shadow = [i \in Shards |-> World(sharding_vec[i], NoHeap, {})]
  /\ agree = TRUE
  /\ \E k \in followed : made = NoCalls(k, TRUE)
  /\ NoLsm

InitSharded(followed) == InitShards(followed) /\ NoUse

InitShard == InitSharded({0})

\* A thread calls get, put, remove or get_or_insert with a key. Which of the four it is,
\* and the value or factory it passes, are read by the body only: they are drawn there.
Call(t, key) ==
  /\ thr[t].pc = "idle"
  /\ thr' = [thr EXCEPT ![t] = [pc |-> "wait", key |-> key]]
  /\ UNCHANGED <<cacheVars, ks, sharding_vec, locks, hasher, shadow, agree, made, built, lsmVars, useVars>>

\* self.shard(key).lock()
Lock(t) ==
  /\ thr[t].pc = "wait"
  /\ LET i == shard(hasher, thr[t].key, sharding_vec)
     IN /\ can_lock(locks, i)
        /\ locks' = [locks EXCEPT ![i] = t]
  /\ thr' = [thr EXCEPT ![t].pc = "locked"]
  /\ UNCHANGED <<cacheVars, ks, sharding_vec, hasher, shadow, agree, made, built, lsmVars, useVars>>

MadeAfter(t, o, key, arg, r) ==
  LET m == made
      val == IF r.calls = 1 /\ r.ok THEN arg ELSE m.val
      waits == \E u \in Threads \ {t} : thr[u].pc = "wait" /\ thr[u].key = key
  IN IF key # m.key
     THEN IF EvictedKey(r.w.mem, r.evicted) = m.key /\ m.key # 0
          THEN NoCalls(m.key, TRUE) ELSE m
     ELSE CASE o = "put" -> NoCalls(key, FALSE)
            [] o = "remove" -> IF r.ret # None THEN NoCalls(key, TRUE) ELSE m
            [] o = "get" -> m
            [] o = "get_or_insert" ->
                 IF ~m.fresh THEN m
                 ELSE [key |-> key, fresh |-> TRUE,
                       inv |-> Min2(m.inv + r.calls),
                       val |-> val,
                       got |-> Min2(m.got + (IF r.ok THEN 1 ELSE 0)),
                       bad |-> m.bad \/ (r.ok /\ r.ret # Some(val)),
                       late |-> m.late \/ (r.calls = 1 /\ m.val # 0),
                       race |-> m.race \/ (waits /\ r.calls = 1 /\ r.ok)]

\* The shadow keeps a shard's entries on a heap of its own, up to the addresses: its nodes
\* are renumbered in list order and the cells nothing points to are given back.
Canon(w) ==
  LET order == Walk(w.mem, w.head, MaxNodes)
      n == Len(order)
      ren(x) == IF \E i \in 1..n : order[i] = x THEN CHOOSE i \in 1..n : order[i] = x ELSE NULL
  IN [head |-> ren(w.head), tail |-> ren(w.tail), cap |-> w.cap,
      inner |-> {[kref |-> ren(e.kref), node |-> ren(e.node)] : e \in w.inner},
      mem |-> [i \in NodeIds |->
                 IF i <= n
                 THEN [key |-> w.mem[order[i]].key, value |-> w.mem[order[i]].value,
                       prev |-> ren(w.mem[order[i]].prev), next |-> ren(w.mem[order[i]].next)]
                 ELSE FreeCell],
      live |-> 1..n]

\* the locked shard of thread t
Locked(t) == World(sharding_vec[shard(hasher, thr[t].key, sharding_vec)], mem, live)

\* the call itself, under the lock; the guard is dropped when the statement ends
BodyStep(t, o, arg) ==
  /\ thr[t].pc = "locked"
  /\ LET key == thr[t].key
         i == shard(hasher, key, sharding_vec)
     IN /\ Allocates(o, Locked(t), key, arg) => live # NodeIds
        /\ \E r \in {Run(o, Locked(t), key, arg)} :
             \E vec \in {[sharding_vec EXCEPT ![i] = CacheOf(r.w)]} :
               /\ sharding_vec' = vec
               /\ mem' = ShardedHeapView(vec, r.w.mem)
               /\ live' = r.w.live
        /\ locks' = [locks EXCEPT ![i] = 0]
  /\ UNCHANGED <<lru, op, touched, ks, hasher, built, lsmVars>>

\* history: the same call on the shadow of the shard, and whether it returned the same
Sequential(t, o, arg) ==
  LET key == thr[t].key
      i == shard(hasher, key, sharding_vec)
  IN \E r \in {Run(o, Locked(t), key, arg)}, rs \in {Run(o, shadow[i], key, arg)} :
       /\ shadow' = [shadow EXCEPT ![i] = Canon(rs.w)]
       /\ agree' = (agree /\ r.ok = rs.ok /\ r.ret = rs.ret /\ r.calls = rs.calls)

Body(t, o, arg) ==
  /\ BodyStep(t, o, arg)
  /\ Sequential(t, o, arg)
  /\ thr' = [thr EXCEPT ![t] = Idle]
  /\ UNCHANGED <<made, useVars>>

NextShard ==
  \/ \E t \in Threads, k \in Keys : Call(t, k)
  \/ \E t \in Threads : Lock(t)
  \/ \E t \in Threads, o \in Ops : \E a \in Args(o) : Body(t, o, a)

SpecShard == InitShard /\ [][NextShard]_vars

\* ------------------------------- SpecGoi: the factory calls of get_or_insert
GoiOps == {"put", "remove", "get_or_insert"}
GoiBody(t, o, arg) ==
  /\ BodyStep(t, o, arg)
  /\ made' = MadeAfter(t, o, thr[t].key, arg, Run(o, Locked(t), thr[t].key, arg))
  /\ thr' = [thr EXCEPT ![t] = Idle]
  /\ UNCHANGED <<shadow, agree, useVars>>

NextGoi ==
  \/ \E t \in Threads, k \in Keys : Call(t, k)
  \/ \E t \in Threads : Lock(t)
  \/ \E t \in Threads, o \in GoiOps : \E a \in Args(o) : GoiBody(t, o, a)

InitGoi == InitSharded(Keys)
SpecGoi == InitGoi /\ [][NextGoi]_vars

\* ------------- SpecRef: the references that get and get_or_insert hand out
\* get and get_or_insert return &node.value; the MutexGuard is a temporary of the
\* statement, so the caller has the reference in hand after the lock is released
InitRef ==
  /\ InitShards({0})
  /\ refs = [t \in Threads |-> NULL]
  /\ scan = <<>>

\* a thread that reads through its reference makes no other call meanwhile
RefCall(t, key) == refs[t] = NULL /\ Call(t, key)

\* the call under the lock; a get or get_or_insert leaves its caller a reference
RefBody(t, o, arg) ==
  /\ BodyStep(t, o, arg)
  /\ refs' = [refs EXCEPT ![t] = Run(o, Locked(t), thr[t].key, arg).node]
  /\ thr' = [thr EXCEPT ![t] = Idle]
  /\ UNCHANGED <<shadow, agree, made, scan>>

\* the caller is done with the value: the reference goes out of use
RefEnd(t) ==
  /\ refs[t] # NULL
  /\ refs' = [refs EXCEPT ![t] = NULL]
  /\ UNCHANGED <<cacheVars, ks, shardVars, built, lsmVars, scan>>

NextRef ==
  \/ \E t \in Threads, k \in Keys : RefCall(t, k)
  \/ \E t \in Threads : Lock(t)
  \/ \E t \in Threads, o \in Ops : \E a \in Args(o) : RefBody(t, o, a)
  \/ \E t \in Threads : RefEnd(t)

SpecRef == InitRef /\ [][NextRef]_vars

\* ---------------------- SpecEmpty: is_empty beside threads that put and remove
\* one turn of the loop of is_empty that returns true once the first shard is empty
Sharding_is_empty_first(vec, i) ==
  IF ~is_empty(vec[i])
  THEN [done |-> TRUE, ret |-> FALSE, i |-> i]
  ELSE [done |-> TRUE, ret |-> TRUE, i |-> i]

\* ShardingLruCache::is_empty, one turn of its loop on shard i: return false when the
\* shard is not empty, go on to the next shard, return true after the last one
Sharding_is_empty(vec, i) ==
  IF ~is_empty(vec[i])
  THEN [done |-> TRUE, ret |-> FALSE, i |-> i]
  ELSE IF i = Len(vec)
       THEN [done |-> TRUE, ret |-> TRUE, i |-> i]
       ELSE [done |-> FALSE, ret |-> FALSE, i |-> i + 1]

AllEmpty(vec) == \A i \in 1..Len(vec) : is_empty(vec[i])
\* i: the shard the loop looks at next. History of the call: seen[j]: shard j was empty
\* when the loop held its lock; all: at some instant since the call began all shards
\* were empty together; some: at some instant since then a shard was not empty
NoScan == [pc |-> "idle", i |-> 0, ret |-> FALSE, seen |-> [j \in Shards |-> FALSE],
           all |-> FALSE, some |-> FALSE]

InitEmpty ==
  /\ InitShards({0})
  /\ refs = <<>>
  /\ scan = NoScan

\* a thread calls is_empty
IsEmptyCall ==
  /\ scan.pc = "idle"
  /\ scan' = [NoScan EXCEPT !.pc = "scan", !.i = 1, !.all = AllEmpty(sharding_vec),
                            !.some = ~AllEmpty(sharding_vec)]
  /\ UNCHANGED <<cacheVars, ks, shardVars, built, lsmVars, refs>>

\* `if !lru.lock().is_empty()`: the guard is taken and dropped within the condition
IsEmptyStep ==
  /\ scan.pc = "scan"
  /\ can_lock(locks, scan.i)
  /\ \E r \in {Sharding_is_empty(sharding_vec, scan.i)} :
       scan' = [scan EXCEPT !.pc = IF r.done THEN "done" ELSE "scan", !.i = r.i,
                            !.ret = r.ret, !.seen[scan.i] = is_empty(sharding_vec[scan.i])]
  /\ UNCHANGED <<cacheVars, ks, shardVars, built, lsmVars, refs>>

\* the caller has the result
IsEmptyReturn ==
  /\ scan.pc = "done"
  /\ scan' = NoScan
  /\ UNCHANGED <<cacheVars, ks, shardVars, built, lsmVars, refs>>

EmptyOps == {"put", "remove"}
\* a put or remove of another thread, under the lock of its shard
EmptyBody(t, o, arg) ==
  /\ BodyStep(t, o, arg)
  /\ thr' = [thr EXCEPT ![t] = Idle]
  /\ scan' = IF scan.pc = "scan"
             THEN [scan EXCEPT !.all = @ \/ AllEmpty(sharding_vec'),
                               !.some = @ \/ ~AllEmpty(sharding_vec')]
             ELSE scan
  /\ UNCHANGED <<shadow, agree, made, refs>>

NextEmpty ==
  \/ \E t \in Threads, k \in Keys : Call(t, k)
  \/ \E t \in Threads : Lock(t)
  \/ \E t \in Threads, o \in EmptyOps : \E a \in Args(o) : EmptyBody(t, o, a)
  \/ IsEmptyCall
  \/ IsEmptyStep
  \/ IsEmptyReturn

SpecEmpty == InitEmpty /\ [][NextEmpty]_vars

\* -------------------------------------------- SpecNew: the constructor
InitNew ==
  /\ lru = LruCache_new(1).cache
  /\ mem = NoHeap /\ live = {}
  /\ op = NoOp /\ touched = <<>> /\ ks = <<>>
  /\ sharding_vec = <<>> /\ locks = <<>> /\ hasher = 0 /\ thr = <<>>
  /\ shadow = <<>> /\ agree = TRUE /\ made = <<>>
  /\ NoLsm
  /\ NoUse
  /\ \E cap \in 0..MaxNewCap, size \in 1..MaxNewShards :
       built = [cap |-> cap, size |-> size, done |-> FALSE, ok |-> FALSE, err |-> ""]

New ==
  /\ ~built.done
  /\ \E r \in {ShardingLruCache_new(built.cap, built.size)} :
       /\ sharding_vec' = r.sharding_vec
       /\ locks' = [i \in 1..Len(r.sharding_vec) |-> 0]
       /\ built' = [built EXCEPT !.done = TRUE, !.ok = r.ok, !.err = r.err]
  /\ UNCHANGED <<cacheVars, ks, hasher, thr, shadow, agree, made, lsmVars, useVars>>

NextNew == New
SpecNew == InitNew /\ [][NextNew]_vars

\* ------------------------------------------------------------- Vec<u8>
\* the largest byte a key holds
MaxByte == 2
\* the scores handed to one call of fusion
MaxScores == 3
Bytes == 1..MaxByte
\* the keys tried: the byte strings of one or two bytes
ByteKeys == {<<a>> : a \in Bytes} \cup {<<a, b>> : a \in Bytes, b \in Bytes}

\* Ord for Vec<u8>: lexicographic, a proper prefix before what it is a prefix of
lt(a, b) ==
  \E i \in 1..Len(b) :
    /\ \A j \in 1..(i - 1) : j <= Len(a) /\ a[j] = b[j]
    /\ (i = Len(a) + 1 \/ (i <= Len(a) /\ a[i] < b[i]))
le(a, b) == a = b \/ lt(a, b)
gt(a, b) == lt(b, a)
ge(a, b) == le(b, a)

\* Itertools::sorted: the elements in ascending order (insertion sort)
RECURSIVE sorted(_)
sorted(s) ==
  IF s = <<>> THEN <<>>
  ELSE LET x == Head(s)
           t == sorted(Tail(s))
       IN SelectSeq(t, LAMBDA y : lt(y, x)) \o <<x>> \o SelectSeq(t, LAMBDA y : ~lt(y, x))

\* CommandData::Set { key, value } and CommandData::Remove { key }
Set(key, value) == [cmd |-> "Set", key |-> key, value |-> value]
Remove(key) == [cmd |-> "Remove", key |-> key, value |-> <<>>]
get_key_clone(cmd_data) == cmd_data.key

\* --------------------------------------------------------------- Score
from_cmd_data(first, last) == [start |-> get_key_clone(first), end |-> get_key_clone(last)]

\* fusion that takes the start of the first score and the end of the last one
fusion_unsorted(vec) ==
  IF Len(vec) > 0
  THEN [ok |-> TRUE, score |-> [start |-> vec[1].start, end |-> vec[Len(vec)].end], err |-> ""]
  ELSE [ok |-> FALSE, score |-> <<>>, err |-> "DataEmpty"]

fusion(vec) ==
  IF Len(vec) > 0
  THEN LET starts == sorted([i \in 1..Len(vec) |-> vec[i].start])
           ends == sorted([i \in 1..Len(vec) |-> vec[i].end])
       IN [ok |-> TRUE, score |-> [start |-> starts[1], end |-> ends[Len(ends)]], err |-> ""]
  ELSE [ok |-> FALSE, score |-> <<>>, err |-> "DataEmpty"]

meet(self, target) ==
  \/ le(self.start, target.start) /\ gt(self.end, target.start)
  \/ lt(self.start, target.end) /\ ge(self.end, target.end)

from_vec_cmd_data(vec_mem_data) ==
  IF Len(vec_mem_data) >= 2
  THEN [ok |-> TRUE, score |-> from_cmd_data(vec_mem_data[1], vec_mem_data[Len(vec_mem_data)]),
        err |-> ""]
  ELSE IF Len(vec_mem_data) = 1
  THEN [ok |-> TRUE, score |-> from_cmd_data(vec_mem_data[1], vec_mem_data[1]), err |-> ""]
  ELSE [ok |-> FALSE, score |-> <<>>, err |-> "DataEmpty"]

\* ------------------------------------------ SpecScore: meet and fusion
\* a Score made from a sorted batch: start <= end
Scores == {sc \in [start : ByteKeys, end : ByteKeys] : le(sc.start, sc.end)}
RECURSIVE SeqsUpTo(_, _)
SeqsUpTo(S, n) ==
  IF n = 0 THEN {<<>>}
  ELSE LET shorter == SeqsUpTo(S, n - 1)
       IN shorter \cup {Append(q, x) : q \in {p \in shorter : Len(p) = n - 1}, x \in S}
NoScore == [name |-> "none", ok |-> TRUE, ret |-> FALSE, score |-> <<>>, err |-> ""]

InitScore ==
  /\ lru = LruCache_new(1).cache /\ mem = [n \in NodeIds |-> FreeCell] /\ live = {}
  /\ op = NoOp /\ touched = <<>> /\ ks = <<>>
  /\ sharding_vec = <<>> /\ locks = <<>> /\ hasher = 0 /\ thr = <<>>
  /\ shadow = <<>> /\ agree = TRUE /\ made = <<>> /\ built = <<>>
  /\ NoUse
  /\ vec_score \in SeqsUpTo(Scores, MaxScores)
  /\ scored = NoScore
  /\ args = <<>> /\ io_handler = <<>> /\ ss_table = <<>> /\ restored = <<>> /\ queried = <<>>

\* vec_score[1].meet(&vec_score[2])
Meet ==
  /\ Len(vec_score) = 2
  /\ scored' = [NoScore EXCEPT !.name = "meet", !.ret = meet(vec_score[1], vec_score[2])]
  /\ UNCHANGED <<cacheVars, ks, shardVars, built, vec_score, tableVars, useVars>>

\* Score::fusion(vec_score)
Fusion ==
  /\ \E r \in {fusion(vec_score)} :
       scored' = [NoScore EXCEPT !.name = "fusion", !.ok = r.ok, !.score = r.score, !.err = r.err]
  /\ UNCHANGED <<cacheVars, ks, shardVars, built, vec_score, tableVars, useVars>>

NextScore == Meet \/ Fusion
SpecScore == InitScore /\ [][NextScore]_vars

\* ------------------------------------------------- IOHandler, framing
\* The file is a sequence of cells. A cell holds a byte or a fixed-width integer.
\* IOHandler::read_with_pos(start, len): the cells from offset start, at most len of them
read_with_pos(io, start, n) ==
  SubSeq(io.bytes, start + 1, IF start + n > Len(io.bytes) THEN Len(io.bytes) ELSE start + n)
\* the positioned append of IOHandler: the file after it, where the cells went, how many
io_write(io, cells) ==
  [io |-> [io EXCEPT !.bytes = @ \o cells], start |-> Len(io.bytes), len |-> Len(cells)]
get_gen(io) == io.gen

\* a Vec<u8> in a record: its length, then its bytes
vec_bytes(v) == <<Len(v)>> \o v
\* the serialized form of a CommandData: a tag, the key and, for a Set, the value
encode(cmd_data) ==
  IF cmd_data.cmd = "Set"
  THEN <<1>> \o vec_bytes(cmd_data.key) \o vec_bytes(cmd_data.value)
  ELSE <<2>> \o vec_bytes(cmd_data.key)
\* CommandPackage framing: the length of the record, then the record
frame(cmd_data) == <<Len(encode(cmd_data))>> \o encode(cmd_data)
\* CommandPackage::unpack: the CommandData of a record
unpack(rec) ==
  LET klen == rec[2]
      key == SubSeq(rec, 3, 2 + klen)
  IN IF rec[1] = 1
     THEN Set(key, SubSeq(rec, 4 + klen, 3 + klen + rec[3 + klen]))
     ELSE Remove(key)
\* CommandPackage::from_zone_to_vec: the whole records framed in zone, in file order
RECURSIVE from_zone_to_vec(_)
from_zone_to_vec(zone) ==
  IF zone = <<>> \/ Len(zone) < 1 + zone[1] THEN <<>>
  ELSE <<SubSeq(zone, 2, 1 + zone[1])>> \o from_zone_to_vec(SubSeq(zone, 2 + zone[1], Len(zone)))
\* CommandPackage::write and write_back_real_pos: append the framed command;
\* where it starts and its framed length
write(io, cmd_data) == io_write(io, frame(cmd_data))
write_back_real_pos(io, cmd_data) == io_write(io, frame(cmd_data))
\* CommandPackage::from_pos_unpack: the command framed at offset start, if there is one
from_pos_unpack(io, start, n) ==
  LET recs == from_zone_to_vec(read_with_pos(io, start, n))
  IN IF recs = <<>> THEN None ELSE Some(unpack(recs[1]))
\* CommandPackage::find_key_with_zone_unpack: the last command of the zone with the key
find_key_with_zone_unpack(zone, key) ==
  LET cmds == [i \in 1..Len(from_zone_to_vec(zone)) |-> unpack(from_zone_to_vec(zone)[i])]
      hits == {i \in 1..Len(cmds) : get_key_clone(cmds[i]) = key}
  IN IF hits = {} THEN None ELSE Some(cmds[CHOOSE i \in hits : \A j \in hits : j <= i])

\* MetaInfo: the fixed-size footer of five integers at the end of the file
MetaInfoSize == 5
write_to_file(meta_info, io) ==
  io_write(io, <<meta_info.level, meta_info.version, meta_info.data_len, meta_info.index_len,
                 meta_info.part_size>>).io
read_to_file(io) ==
  LET n == Len(io.bytes)
  IN IF n < MetaInfoSize THEN [ok |-> FALSE, err |-> "Io", meta_info |-> <<>>]
     ELSE [ok |-> TRUE, err |-> "",
           meta_info |-> [level |-> io.bytes[n - 4], version |-> io.bytes[n - 3],
                          data_len |-> io.bytes[n - 2], index_len |-> io.bytes[n - 1],
                          part_size |-> io.bytes[n]]]

\* ------------------------------------------------------- sparse index
\* BTreeMap<Vec<u8>, Position>: a function from its keys; iteration in key order
RECURSIVE SetToSeq(_)
SetToSeq(S) ==
  IF S = {} THEN <<>> ELSE LET x == CHOOSE x \in S : TRUE IN <<x>> \o SetToSeq(S \ {x})
BTreeMap_new == <<>>
BTreeMap_keys(m) == sorted(SetToSeq(DOMAIN m))
BTreeMap_insert(m, key, pos) == [x \in DOMAIN m \cup {key} |-> IF x = key THEN pos ELSE m[x]]
\* Position::from_sparse_index_with_key: the entry of the greatest key <= key
from_sparse_index_with_key(sparse_index, key) ==
  LET below == {k \in DOMAIN sparse_index : le(k, key)}
  IN IF below = {} THEN None
     ELSE Some(sparse_index[CHOOSE k \in below : \A j \in below : le(j, k)])

\* rmp_serde::to_vec(&sparse_index): the number of entries, then each entry in key order
RECURSIVE index_cells(_, _)
index_cells(m, keys) ==
  IF keys = <<>> THEN <<>>
  ELSE vec_bytes(keys[1]) \o <<m[keys[1]].start, m[keys[1]].len>> \o index_cells(m, Tail(keys))
to_vec_index(sparse_index) ==
  <<Len(BTreeMap_keys(sparse_index))>> \o index_cells(sparse_index, BTreeMap_keys(sparse_index))
\* rmp_serde::from_slice: the map read back
RECURSIVE read_entries(_, _, _)
read_entries(cells, n, m) ==
  IF n = 0 THEN m
  ELSE LET klen == cells[1]
           key == SubSeq(cells, 2, 1 + klen)
           pos == [start |-> cells[2 + klen], len |-> cells[3 + klen]]
       IN read_entries(SubSeq(cells, 4 + klen, Len(cells)), n - 1, BTreeMap_insert(m, key, pos))
from_slice_index(cells) == read_entries(Tail(cells), cells[1], BTreeMap_new)
\* rmp_serde::to_vec(&score) and from_slice
to_vec_score(score) == vec_bytes(score.start) \o vec_bytes(score.end)
from_slice_score(cells) ==
  [start |-> SubSeq(cells, 2, 1 + cells[1]),
   end |-> SubSeq(cells, 3 + cells[1], 2 + cells[1] + cells[2 + cells[1]])]

\* -------------------------------------------------------------- SsTable
\* the loop of write_data_part: write each command, keep the start of the first one
\* and add up the lengths
RECURSIVE write_cmds(_, _, _, _, _)
write_cmds(vec_cmd_data, index, io, start_pos, part_len) ==
  IF index >= Len(vec_cmd_data) THEN [io |-> io, start_pos |-> start_pos, part_len |-> part_len]
  ELSE LET w == write_back_real_pos(io, vec_cmd_data[index + 1])
       IN write_cmds(vec_cmd_data, index + 1, w.io,
                     IF index = 0 THEN w.start ELSE start_pos, part_len + w.len)

\* write_data_part that indexes the part under the key of its last command
write_data_part_last_key(vec_cmd_data, io, sparse_index) ==
  LET r == write_cmds(vec_cmd_data, 0, io, 0, 0)
  IN [io |-> r.io,
      sparse_index |->
        IF vec_cmd_data # <<>>
        THEN BTreeMap_insert(sparse_index, get_key_clone(vec_cmd_data[Len(vec_cmd_data)]),
                             [start |-> r.start_pos, len |-> r.part_len])
        ELSE sparse_index]

\* write_data_part that records the length of the first command as the length of the part
write_data_part_first_len(vec_cmd_data, io, sparse_index) ==
  LET r == write_cmds(vec_cmd_data, 0, io, 0, 0)
  IN [io |-> r.io,
      sparse_index |->
        IF vec_cmd_data # <<>>
        THEN BTreeMap_insert(sparse_index, get_key_clone(vec_cmd_data[1]),
                             [start |-> r.start_pos, len |-> Len(frame(vec_cmd_data[1]))])
        ELSE sparse_index]

\* the file and the sparse index after the part is written (the caller's Vec is cleared)
write_data_part(vec_cmd_data, io, sparse_index) ==
  LET r == write_cmds(vec_cmd_data, 0, io, 0, 0)
  IN [io |-> r.io,
      sparse_index |->
        IF vec_cmd_data # <<>>
        THEN BTreeMap_insert(sparse_index, get_key_clone(vec_cmd_data[1]),
                             [start |-> r.start_pos, len |-> r.part_len])
        ELSE sparse_index]

\* the loop of create_for_immutable_table over vec_mem_data
RECURSIVE write_parts(_, _, _, _, _, _)
write_parts(vec_mem_data, i, part_size, vec_cmd, io, sparse_index) ==
  IF i > Len(vec_mem_data)
  THEN [vec_cmd |-> vec_cmd, io |-> io, sparse_index |-> sparse_index]
  ELSE LET pushed == Append(vec_cmd, vec_mem_data[i])
       IN IF Len(pushed) >= part_size
          THEN LET w == write_data_part(pushed, io, sparse_index)
               IN write_parts(vec_mem_data, i + 1, part_size, <<>>, w.io, w.sparse_index)
          ELSE write_parts(vec_mem_data, i + 1, part_size, pushed, io, sparse_index)

NoTable == [ok |-> FALSE, err |-> "", meta_info |-> <<>>, sparse_index |-> <<>>, gen |-> 0,
            score |-> <<>>]

\* the SsTable returned (or the error) and the file after the call
create_for_immutable_table(config, io, vec_mem_data, level) ==
  LET score == from_vec_cmd_data(vec_mem_data)
  IN IF ~score.ok THEN [table |-> [NoTable EXCEPT !.err = score.err], io |-> io]
     ELSE LET parts == write_parts(vec_mem_data, 1, config.part_size, <<>>, io, BTreeMap_new)
              rest == IF parts.vec_cmd # <<>>
                      THEN write_data_part(parts.vec_cmd, parts.io, parts.sparse_index)
                      ELSE [io |-> parts.io, sparse_index |-> parts.sparse_index]
              cmd_sparse_index == Set(to_vec_index(rest.sparse_index), to_vec_score(score.score))
              w == write(rest.io, cmd_sparse_index)
              meta_info == [level |-> level, version |-> 0, data_len |-> w.start,
                            index_len |-> w.len, part_size |-> config.part_size]
          IN [table |-> [ok |-> TRUE, err |-> "", meta_info |-> meta_info,
                         sparse_index |-> rest.sparse_index, gen |-> get_gen(io),
                         score |-> score.score],
              io |-> write_to_file(meta_info, w.io)]

\* restore_from_file that takes the footer's two lengths the wrong way round
restore_from_file_swapped(io) ==
  LET meta == read_to_file(io)
  IN IF ~meta.ok THEN [NoTable EXCEPT !.err = meta.err]
     ELSE LET data == from_pos_unpack(io, meta.meta_info.index_len, meta.meta_info.data_len)
          IN IF data = None THEN [NoTable EXCEPT !.err = "KeyNotFound"]
             ELSE IF data[1].cmd # "Set" THEN [NoTable EXCEPT !.err = "NotMatchCmd"]
             ELSE [ok |-> TRUE, err |-> "", meta_info |-> meta.meta_info,
                   sparse_index |-> from_slice_index(data[1].key), gen |-> get_gen(io),
                   score |-> from_slice_score(data[1].value)]

restore_from_file(io) ==
  LET meta == read_to_file(io)
  IN IF ~meta.ok THEN [NoTable EXCEPT !.err = meta.err]
     ELSE LET index_pos == meta.meta_info.data_len
              index_len == meta.meta_info.index_len
              data == from_pos_unpack(io, index_pos, index_len)
          IN IF data = None THEN [NoTable EXCEPT !.err = "KeyNotFound"]
             ELSE IF data[1].cmd # "Set" THEN [NoTable EXCEPT !.err = "NotMatchCmd"]
             ELSE [ok |-> TRUE, err |-> "", meta_info |-> meta.meta_info,
                   sparse_index |-> from_slice_index(data[1].key), gen |-> get_gen(io),
                   score |-> from_slice_score(data[1].value)]

\* SsTable::query: Ok(Some(command)) or Ok(None)
query(table, io, key) ==
  LET position == from_sparse_index_with_key(table.sparse_index, key)
  IN IF position # None
     THEN find_key_with_zone_unpack(read_with_pos(io, position[1].start, position[1].len), key)
     ELSE None

\* ------------------------------- SpecTable: create, restore_from_file, query
\* the commands of a batch, the commands per part, the level
MaxBatch == 3
MaxPart == 2
MaxLevel == 1
Values == {<<b>> : b \in Bytes}
Cmds == {Set(k, v) : k \in ByteKeys, v \in Values} \cup {Remove(k) : k \in ByteKeys}
\* vec_mem_data comes sorted by key from the memory table
Sorted(b) == \A i \in 1..(Len(b) - 1) : le(get_key_clone(b[i]), get_key_clone(b[i + 1]))
Batches == {b \in SeqsUpTo(Cmds, MaxBatch) : Sorted(b)}
NoQuery == [table |-> "none", key |-> <<>>, ret |-> None]

InitTable ==
  /\ lru = LruCache_new(1).cache /\ mem = [n \in NodeIds |-> FreeCell] /\ live = {}
  /\ op = NoOp /\ touched = <<>> /\ ks = <<>>
  /\ sharding_vec = <<>> /\ locks = <<>> /\ hasher = 0 /\ thr = <<>>
  /\ shadow = <<>> /\ agree = TRUE /\ made = <<>> /\ built = <<>>
  /\ NoUse
  /\ vec_score = <<>> /\ scored = <<>>
  /\ \E b \in Batches, p \in 1..MaxPart, l \in 0..MaxLevel :
       args = [vec_mem_data |-> b, config |-> [part_size |-> p], level |-> l]
  /\ io_handler = [gen |-> 1, bytes |-> <<>>]
  /\ ss_table = NoTable
  /\ restored = NoTable
  /\ queried = NoQuery

\* SsTable::create_for_immutable_table on the new, empty file
Create ==
  /\ ~ss_table.ok /\ io_handler.bytes = <<>>
  /\ \E r \in {create_for_immutable_table(args.config, io_handler, args.vec_mem_data,
                                          args.level)} :
       /\ ss_table' = r.table
       /\ io_handler' = r.io
  /\ UNCHANGED <<cacheVars, ks, shardVars, built, scoreVars, args, restored, queried, useVars>>

\* SsTable::restore_from_file on the file that create wrote
Restore ==
  /\ ss_table.ok
  /\ restored' = restore_from_file(io_handler)
  /\ UNCHANGED <<cacheVars, ks, shardVars, built, scoreVars, args, io_handler, ss_table, queried, useVars>>

\* SsTable::query on the table that create returned
Query(key) ==
  /\ ss_table.ok
  /\ queried' = [table |-> "created", key |-> key, ret |-> query(ss_table, io_handler, key)]
  /\ UNCHANGED <<cacheVars, ks, shardVars, built, scoreVars, args, io_handler, ss_table, restored, useVars>>

\* SsTable::query on the table that restore_from_file returned
QueryRestored(key) ==
  /\ restored.ok
  /\ queried' = [table |-> "restored", key |-> key, ret |-> query(restored, io_handler, key)]
  /\ UNCHANGED <<cacheVars, ks, shardVars, built, scoreVars, args, io_handler, ss_table, restored, useVars>>

NextTable ==
  \/ Create
  \/ Restore
  \/ \E k \in ByteKeys : Query(k)
  \/ \E k \in ByteKeys : QueryRestored(k)
SpecTable == InitTable /\ [][NextTable]_vars

\* ------------------------------------------- SpecDrop: the cache is dropped
\* impl Drop for LruCache: the loop takes head and steps to next until head is None;
\* drop(node.as_ptr()) drops a copy of the raw pointer, which gives no memory back
RECURSIVE drop_loop(_, _)
drop_loop(w, fuel) ==
  IF w.head = NULL \/ fuel = 0 THEN w
  ELSE drop_loop([w EXCEPT !.head = w.mem[w.head].next], fuel - 1)
drop(w) == drop_loop(w, MaxNodes)

\* the cache goes out of scope; tail and inner are as the body of drop left them
LruDrop ==
  /\ op.name # "drop"
  /\ \E w \in {drop(World(lru, mem, live))} : Becomes(w)
  /\ op' = [NoOp EXCEPT !.name = "drop"]
  /\ touched' = touched
  /\ UNCHANGED <<ks, shardVars, built, lsmVars, useVars>>

NextDrop ==
  \/ op.name # "drop" /\ Next
  \/ LruDrop
SpecDrop == Init /\ [][NextDrop]_vars

\* what the caller sees of the cache: the entries, most recently used first
Now == World(lru, mem, live)
Entries(c, m) == [i \in 1..Len(ListNodes(c, m)) |->
                    <<m[ListNodes(c, m)[i]].key, m[ListNodes(c, m)[i]].value>>]
Count(c) == Cardinality(c.inner)
Full(c) == Count(c) = c.cap
\* the values a lookup finds for the keys of R, before and after the step
SameValues(R) == \A k \in R : ValueOf(lru', mem', k) = ValueOf(lru, mem, k)
Inserted == op'.name \in {"put", "get_or_insert"} /\ op'.ok /\ op'.key \notin Resident(lru, mem)

\* ------------------------------------------------------------------ C1
\* C1: a put, or a get_or_insert that misses, of an absent key into a cache that holds
\* cap entries evicts exactly one key, the least recently touched resident one; every
\* other resident key stays, with its value, and the new key is resident.
C1_Step ==
  (Inserted /\ Full(lru)) =>
    LET R == Resident(lru, mem)
        lrt == LeastRecentlyTouched(touched, R)
    IN /\ op'.evicted = lrt
       /\ Resident(lru', mem') = (R \ {lrt}) \cup {op'.key}
       /\ SameValues(R \ {lrt})
C1_EvictsLeastRecentlyTouched == [][C1_Step]_vars
\* a put pushed a key out of a full cache of capacity 2 or more
C1_Witness ==
  /\ op.name = "put" /\ op.evicted # 0 /\ lru.cap >= 2 /\ Count(lru) = lru.cap
  /\ op.evicted \notin Resident(lru, mem)

\* ------------------------------------------------------------------ C2
\* C2: put(k, v) on a resident key returns Some(old value), evicts nothing (also when
\* the cache is full), leaves the entry count unchanged, makes k the most recently used
\* key, and a following get(&k) returns v.
C2_Step ==
  (op'.name = "put" /\ op'.key \in Resident(lru, mem)) =>
    LET k == op'.key
    IN /\ op'.ret = Some(ValueOf(lru, mem, k))
       /\ op'.evicted = 0
       /\ Resident(lru', mem') = Resident(lru, mem)
       /\ SameValues(Resident(lru, mem) \ {k})
       /\ Count(lru') = Count(lru)
       /\ ListKeys(lru', mem')[1] = k
       /\ get(World(lru', mem', live'), k).ret = Some(op'.val)
C2_PutReplaces == [][C2_Step]_vars
\* a put replaced the value of a key in a full cache of capacity 2 or more by another value
C2_Witness ==
  /\ op.name = "put" /\ op.hit /\ lru.cap >= 2 /\ Full(lru)
  /\ op.ret # Some(op.val)

\* ------------------------------------------------------------------ C5
\* C5: get_or_insert(k, f) on a resident key returns the cached value without calling f,
\* changes no value and no count and makes k the most recently used key; on an absent key
\* it calls f once and stores the result, and a get_or_insert(k, g) after it returns the
\* stored value without calling g.
C5_Step ==
  (op'.name = "get_or_insert" /\ op'.ok) =>
    LET k == op'.key
    IN /\ k \in Resident(lru, mem) =>
            /\ op'.calls = 0
            /\ op'.ret = Some(ValueOf(lru, mem, k))
            /\ Resident(lru', mem') = Resident(lru, mem)
            /\ SameValues(Resident(lru, mem))
            /\ Count(lru') = Count(lru)
            /\ ListKeys(lru', mem')[1] = k
       /\ k \notin Resident(lru, mem) =>
            /\ op'.calls = 1
            /\ op'.ret = Some(op'.val)
            /\ k \in Resident(lru', mem')
            /\ ValueOf(lru', mem', k) = op'.val
       /\ \A g \in {FactoryErr} \cup Vals :
            LET again == get_or_insert(World(lru', mem', live'), k, g)
            IN again.calls = 0 /\ again.ok /\ again.ret = op'.ret
C5_GetOrInsert == [][C5_Step]_vars
\* a get_or_insert hit a key of a full cache of capacity 2 or more and made it the head
C5_Witness ==
  /\ op.name = "get_or_insert" /\ op.hit /\ lru.cap >= 2 /\ Full(lru)
  /\ mem[lru.head].key = op.key

\* ------------------------------------------------------------------ C6
\* C6: when get_or_insert misses and the factory fails, the error goes to the caller and
\* the cache is as before: no node made, none evicted, same keys, values and order.
C6_Step ==
  (op'.name = "get_or_insert" /\ op'.calls = 1 /\ op'.val = 0) =>
    /\ ~op'.ok /\ op'.ret = None
    /\ lru' = lru /\ mem' = mem /\ live' = live
    /\ Entries(lru', mem') = Entries(lru, mem)
C6_FactoryError == [][C6_Step]_vars
\* a failing factory was called on a miss in a full cache
C6_Witness == op.name = "get_or_insert" /\ ~op.ok /\ op.calls = 1 /\ Full(lru)

\* ------------------------------------------------------------------ C8
\* C8: remove(&k) on a resident key returns Some(its value), after which get(&k) is None
\* and the count is one less, the other keys keeping their values and their order; on an
\* absent key it returns None and changes nothing.
C8_Step ==
  (op'.name = "remove") =>
    LET k == op'.key
    IN IF k \in Resident(lru, mem)
       THEN /\ op'.ret = Some(ValueOf(lru, mem, k))
            /\ get(World(lru', mem', live'), k).ret = None
            /\ Count(lru') = Count(lru) - 1
            /\ Resident(lru', mem') = Resident(lru, mem) \ {k}
            /\ Entries(lru', mem') = SelectSeq(Entries(lru, mem), LAMBDA e : e[1] # k)
       ELSE /\ op'.ret = None
            /\ lru' = lru /\ mem' = mem /\ live' = live
C8_Remove == [][C8_Step]_vars
\* a remove unlinked the middle node of three: a newer and an older key remain
C8_Witness ==
  /\ op.name = "remove" /\ op.hit /\ Count(lru) = 2
  /\ \E i, j, l \in 1..Len(touched) : i < j /\ j < l
       /\ touched[i] = ListKeys(lru, mem)[2] /\ touched[j] = op.key
       /\ touched[l] = ListKeys(lru, mem)[1]

\* ------------------------------------------------------------------ C7
\* C7: after put(k, v) for each k of a key sequence ks no longer than the capacity, on
\* an empty cache, every key of ks is present: nothing is evicted before the number of
\* distinct keys would exceed the capacity.
C7_FillKeepsAll ==
  Len(ks) <= lru.cap =>
    \A k \in Range(ks) :
      /\ k \in Resident(lru, mem)
      /\ get(World(lru, mem, live), k).ret # None
\* capacity 2 or more, and as many distinct keys put as the capacity
C7_Witness == lru.cap >= 2 /\ Len(ks) = lru.cap /\ Cardinality(Range(ks)) = lru.cap

\* ------------------------------------------------------------------ C3
\* the shard a thread waits for or holds
ShardOf(t) == shard(hasher, thr[t].key, sharding_vec)
Holders(i) == {t \in Threads : thr[t].pc = "locked" /\ ShardOf(t) = i}
ShardEntries(i) == Entries(sharding_vec[i], mem)
\* C3: calls that select the same shard run one at a time (a shard has at most one thread
\* under its lock, the one its mutex names), every call so far returned what the same
\* call returned when the calls of its shard were run alone, one after another in the
\* order of their locks, and every shard holds the entries that sequential run left.
C3_PerShardLinearizable ==
  /\ \A i \in Shards :
       /\ Cardinality(Holders(i)) <= 1
       /\ \A t \in Threads : (locks[i] = t) <=> (t \in Holders(i))
  /\ agree
  /\ \A i \in Shards : ShardEntries(i) = Entries(CacheOf(shadow[i]), shadow[i].mem)
\* a thread waits for the lock of a shard that another thread holds, after calls of both
\* shards have left an entry in each and a node has been pushed out
C3_Witness ==
  /\ \E t, u \in Threads :
       /\ t # u /\ thr[t].pc = "locked" /\ thr[u].pc = "wait" /\ ShardOf(t) = ShardOf(u)
  /\ \A i \in Shards : Len(ShardEntries(i)) >= 1
  /\ Cardinality(live) > NumShards * MaxShardCap

\* ------------------------------------------------------------------ C4
\* the followed key is in its shard with the value v
Holds(k, v) ==
  LET c == sharding_vec[shard(hasher, k, sharding_vec)]
  IN k \in Resident(c, mem) /\ ValueOf(c, mem, k) = v
\* C4 as stated: from the time a key is absent, as long as it is neither removed nor
\* evicted (nor put), the get_or_insert calls for it call a factory once in total and
\* every call returns the value made.
C4_FactoryOnceInTotal == (made.key # 0 /\ made.fresh) => (made.inv <= 1 /\ ~made.bad)
\* C4: from the time a key is absent, as long as it is neither removed, evicted nor put:
\* no factory is called after one has made a value, so at most one call makes a value;
\* that value stays in the shard; every get_or_insert that returns Ok returns it, and none
\* returns Ok before it is made. (A factory that fails leaves the key absent: the next
\* call calls its own factory.)
C4_FactoryOnceUntilMade ==
  (made.key # 0 /\ made.fresh) =>
    /\ ~made.late
    /\ ~made.bad
    /\ made.val # 0 => Holds(made.key, made.val)
    /\ made.val = 0 => (made.got = 0 /\ \A v \in Vals : ~Holds(made.key, v))
    /\ made.got >= 1 => made.inv >= 1
\* two get_or_insert calls for a key returned the value one factory call made, one of
\* them having waited for the lock while the other made it, and both have returned
C4_Witness ==
  /\ made.key # 0 /\ made.fresh /\ made.inv = 1 /\ made.val # 0 /\ made.got = 2 /\ made.race
  /\ \A t \in Threads : thr[t].pc = "idle"

\* ------------------------------------------------------------------ C9
Aligned == built.cap % built.size = 0
\* exactly size shards, each an empty LruCache of capacity cap / size, each lock free
Sharded ==
  /\ built.ok
  /\ Len(sharding_vec) = built.size
  /\ \A i \in 1..built.size :
       /\ sharding_vec[i] = LruCache_new(built.cap \div built.size).cache
       /\ sharding_vec[i].cap = built.cap \div built.size
       /\ locks[i] = 0
Fails(err) == ~built.ok /\ built.err = err /\ sharding_vec = <<>>
\* C9 as stated: for every capacity and every shard count >= 1, new fails with
\* ShardingNotAlign when capacity % shard_count # 0, and otherwise succeeds with
\* shard_count shards of capacity capacity / shard_count.
C9_NewAlignedSucceeds ==
  built.done => IF Aligned THEN Sharded ELSE Fails("ShardingNotAlign")
\* C9: for every capacity and every shard count >= 1, new fails with ShardingNotAlign when
\* capacity % shard_count # 0, fails with CacheSizeOverFlow when capacity = 0, and
\* otherwise succeeds with shard_count shards of capacity capacity / shard_count.
C9_NewAlignedPositiveSucceeds ==
  built.done =>
    IF ~Aligned THEN Fails("ShardingNotAlign")
    ELSE IF built.cap = 0 THEN Fails("CacheSizeOverFlow")
    ELSE Sharded
\* new made several shards of a capacity above one
C9_Witness ==
  /\ built.done /\ built.ok /\ built.size >= 2 /\ built.cap \div built.size >= 2
  /\ Len(sharding_vec) = built.size

\* ------------------------------------------------------------------ C10
\* hash(k) mod S, as a position in sharding_vec
HashModS(k) == (finish(hasher, k) % built.size) + 1
ShardKeys(vec, m, i) == Resident(vec[i], m)
C10_Placed ==
  \A i \in Shards :
    /\ \A k \in ShardKeys(sharding_vec, mem, i) : HashModS(k) = i
    /\ Count(sharding_vec[i]) <= built.cap \div built.size
    /\ Len(ShardEntries(i)) <= built.cap \div built.size
\* a call of thread t for its key leaves every shard but that of the key as it was:
\* the cache, the cells its pointers lead to, its entries
C10_Step ==
  \A t \in Threads :
    (thr[t].pc = "locked" /\ thr'[t].pc = "idle") =>
      \A j \in Shards \ {HashModS(thr[t].key)} :
        /\ sharding_vec'[j] = sharding_vec[j]
        /\ \A n \in Reachable(World(sharding_vec[j], mem, {})) : mem'[n] = mem[n]
        /\ Entries(sharding_vec'[j], mem') = ShardEntries(j)
\* C10: every resident key k is in the shard hash(k) mod S and in no other, every shard
\* holds at most capacity / S entries, and every get, put, remove and get_or_insert for
\* k leaves the shards other than hash(k) mod S unchanged.
C10_OnlyItsShard == []C10_Placed /\ [][C10_Step]_vars
\* every shard is full, a node has been pushed out of one, and a thread holds a lock
C10_Witness ==
  /\ \A i \in Shards : Count(sharding_vec[i]) = built.cap \div built.size
  /\ Cardinality(live) > built.cap
  /\ \E t \in Threads : thr[t].pc = "locked"

\* ------------------------------------------------------------------ C11
BatchKeys == {get_key_clone(args.vec_mem_data[i]) : i \in 1..Len(args.vec_mem_data)}
\* C11: on the table made from a sorted non-empty batch, query(k) returns Some(a command
\* whose key is k) when k is the key of a command of the batch, and None when it is not
\* (below the first key, above the last one, or between the keys of a part).
C11_QueryFindsBatchKeys ==
  queried.table = "created" =>
    IF queried.key \in BatchKeys
    THEN queried.ret # None /\ get_key_clone(queried.ret[1]) = queried.key
    ELSE queried.ret = None
\* a query found the second command of a part of two, in a batch of three keys
C11_Witness ==
  /\ queried.table = "created" /\ args.config.part_size = 2 /\ Len(args.vec_mem_data) = 3
  /\ Cardinality(BatchKeys) = 3
  /\ queried.key = get_key_clone(args.vec_mem_data[2])
  /\ queried.ret = Some(args.vec_mem_data[2])

\* ------------------------------------------------------------------ C12
\* C12: restore_from_file on the file that create_for_immutable_table wrote succeeds and
\* gives a table with the same sparse_index, score and meta_info as the created one, and
\* the restored table answers every query as the created one does.
C12_RestoreRoundTrip ==
  /\ (ss_table.ok /\ restored # NoTable) =>
       /\ restored.ok
       /\ restored.sparse_index = ss_table.sparse_index
       /\ restored.score = ss_table.score
       /\ restored.meta_info = ss_table.meta_info
       /\ \A k \in ByteKeys : query(restored, io_handler, k) = query(ss_table, io_handler, k)
  /\ queried.table = "restored" => queried.ret = query(ss_table, io_handler, queried.key)
\* a table of two parts was restored and a query on the restored table found its command
C12_Witness ==
  /\ restored.ok /\ Cardinality(DOMAIN restored.sparse_index) = 2
  /\ restored.score.start # restored.score.end
  /\ queried.table = "restored" /\ queried.ret # None

\* ------------------------------------------------------------------ C13
\* the closed ranges [X.start, X.end] and [Y.start, Y.end] share a key
Overlap(X, Y) == le(X.start, Y.end) /\ le(Y.start, X.end)
\* C13: meet returns true exactly when the two closed ranges share at least one key (also
\* when they only touch at a boundary), and false when they are disjoint.
C13_MeetIffOverlap ==
  scored.name = "meet" => (scored.ret <=> Overlap(vec_score[1], vec_score[2]))

\* ------------------------------------------------------------------ C14
NonDegenerate(X) == lt(X.start, X.end)
\* C14: for two scores with start < end each, X.meet(Y) = Y.meet(X), also when one range
\* lies strictly inside the other.
C14_MeetSymmetric ==
  (scored.name = "meet" /\ NonDegenerate(vec_score[1]) /\ NonDegenerate(vec_score[2])) =>
    scored.ret = meet(vec_score[2], vec_score[1])

\* ------------------------------------------------------------------ C15
\* the lists that hold the scores of vec in another order
Reorderings(vec) ==
  {[i \in 1..Len(vec) |-> vec[f[i]]] :
     f \in {g \in [1..Len(vec) -> 1..Len(vec)] : \A i, j \in 1..Len(vec) : g[i] = g[j] => i = j}}
\* C15: fusion of a non-empty list returns the least start and the greatest end of the
\* list; fusion of one score is that score; the result is the same for every order of the
\* list and when two parts of it are fused first; on the empty list it fails with DataEmpty.
C15_FusionMinMax ==
  scored.name = "fusion" =>
    IF vec_score = <<>>
    THEN ~scored.ok /\ scored.err = "DataEmpty"
    ELSE /\ scored.ok
         /\ \E i \in 1..Len(vec_score) : scored.score.start = vec_score[i].start
         /\ \A i \in 1..Len(vec_score) : le(scored.score.start, vec_score[i].start)
         /\ \E i \in 1..Len(vec_score) : scored.score.end = vec_score[i].end
         /\ \A i \in 1..Len(vec_score) : le(vec_score[i].end, scored.score.end)
         /\ Len(vec_score) = 1 => scored.score = vec_score[1]
         /\ \A other \in Reorderings(vec_score) : fusion(other).score = scored.score
         /\ \A n \in 1..(Len(vec_score) - 1) :
              fusion(<<fusion(SubSeq(vec_score, 1, n)).score,
                       fusion(SubSeq(vec_score, n + 1, Len(vec_score))).score>>).score
                = scored.score
\* three scores were fused whose least start is not the first one's and whose greatest end
\* is not the last one's
C15_Witness ==
  /\ scored.name = "fusion" /\ scored.ok /\ Len(vec_score) = 3
  /\ lt(scored.score.start, vec_score[1].start)
  /\ lt(vec_score[3].end, scored.score.end)
  /\ scored.score \notin {vec_score[i] : i \in 1..3}

\* ------------------------------------------------------------------ C16
\* C16: after every operation the index has as many entries as the list from head has
\* nodes, the index points at exactly those nodes, its keys are exactly their keys (each
\* once), and that number is at most the capacity.
C16_IndexMatchesList ==
  LET nodes == ListNodes(lru, mem)
  IN /\ Cardinality(lru.inner) = Len(nodes)
     /\ {e.node : e \in lru.inner} = Range(nodes)
     /\ Resident(lru, mem) = Range(ListKeys(lru, mem))
     /\ Cardinality(Resident(lru, mem)) = Len(nodes)
     /\ Len(nodes) <= lru.cap
\* an insert into a full cache of two or more entries pushed a key out
C16_Witness ==
  /\ op.name \in {"put", "get_or_insert"} /\ op.evicted # 0
  /\ lru.cap >= 2 /\ Cardinality(lru.inner) = lru.cap

\* ------------------------------------------------------------------ C17
\* the nodes met walking prev from n (at most fuel steps)
RECURSIVE WalkBack(_, _, _)
WalkBack(m, n, fuel) ==
  IF n = NULL \/ fuel = 0 THEN <<>> ELSE <<n>> \o WalkBack(m, m[n].prev, fuel - 1)
Reverse(s) == [i \in 1..Len(s) |-> s[Len(s) + 1 - i]]
\* C17: after every operation head and tail are both NULL or both set, head.prev and
\* tail.next are NULL, n.next.prev = n for every node with a successor, and the walk along
\* prev from tail meets the nodes of the walk along next from head in reverse order, no
\* node twice.
C17_ListWellFormed ==
  LET nodes == ListNodes(lru, mem)
  IN /\ (lru.head = NULL) <=> (lru.tail = NULL)
     /\ lru.head # NULL => mem[lru.head].prev = NULL /\ mem[lru.tail].next = NULL
     /\ \A i \in 1..Len(nodes) :
          mem[nodes[i]].next # NULL => mem[mem[nodes[i]].next].prev = nodes[i]
     /\ Cardinality(Range(nodes)) = Len(nodes)
     /\ nodes # <<>> => nodes[Len(nodes)] = lru.tail
     /\ WalkBack(mem, lru.tail, MaxNodes) = Reverse(nodes)
\* a get moved the last of three nodes to the head
C17_Witness ==
  /\ op.name = "get" /\ op.hit /\ Len(ListNodes(lru, mem)) = 3
  /\ mem[lru.head].key = op.key
  /\ Len(touched) = 3 /\ touched[3] = op.key /\ mem[lru.tail].key = touched[1]

\* ------------------------------------------------------------------ C18
\* C18: after every operation every node that is allocated and not freed is in the list
\* from head and in the index: a node taken out by eviction, by a replacing put or by
\* remove has been freed and is not left allocated outside the cache.
C18_NoNodeOutsideCache ==
  /\ live \subseteq Range(ListNodes(lru, mem))
  /\ live \subseteq {e.node : e \in lru.inner}

\* ------------------------------------------------------------------ C19
\* C19: when the cache is dropped every node of its list (the nodes its index names) has
\* been freed: none of them stays allocated.
C19_DropFreesList ==
  op.name = "drop" => {e.node : e \in lru.inner} \cap live = {}

\* ------------------------------------------------------------------ C20
\* the parts of the batch: part j holds commands (j-1)*p+1 .. j*p (the last one up to n)
PartCount == (Len(args.vec_mem_data) + args.config.part_size - 1) \div args.config.part_size
Part(j) ==
  SubSeq(args.vec_mem_data, (j - 1) * args.config.part_size + 1,
         IF j * args.config.part_size < Len(args.vec_mem_data)
         THEN j * args.config.part_size ELSE Len(args.vec_mem_data))
RECURSIVE FramedLen(_)
FramedLen(cmds) == IF cmds = <<>> THEN 0 ELSE Len(frame(Head(cmds))) + FramedLen(Tail(cmds))
PartStart(j) == FramedLen(SubSeq(args.vec_mem_data, 1, (j - 1) * args.config.part_size))
\* the commands framed in a range of the file
ZoneCmds(zone) == [i \in 1..Len(from_zone_to_vec(zone)) |-> unpack(from_zone_to_vec(zone)[i])]
FirstKeysDistinct ==
  \A i, j \in 1..PartCount : get_key_clone(Part(i)[1]) = get_key_clone(Part(j)[1]) => i = j
\* one index entry per part, keyed by the part's first key, holding the part's offset and
\* the sum of its framed lengths; the score spans the least index key to the last key;
\* the ranges of the index lie end to end from 0 to data_len and hold the parts' commands
IndexPerPart ==
  LET si == ss_table.sparse_index
      n == Len(args.vec_mem_data)
  IN /\ Cardinality(DOMAIN si) = PartCount
     /\ \A j \in 1..PartCount :
          /\ get_key_clone(Part(j)[1]) \in DOMAIN si
          /\ si[get_key_clone(Part(j)[1])] = [start |-> PartStart(j), len |-> FramedLen(Part(j))]
     /\ \A k \in DOMAIN si :
          \E j \in 1..PartCount :
            /\ k = get_key_clone(Part(j)[1])
            /\ ZoneCmds(read_with_pos(io_handler, si[k].start, si[k].len)) = Part(j)
     /\ ss_table.score.start = BTreeMap_keys(si)[1]
     /\ ss_table.score.end = get_key_clone(args.vec_mem_data[n])
     /\ \A k \in DOMAIN si :
          \/ si[k].start = 0
          \/ \E k2 \in DOMAIN si : si[k2].start + si[k2].len = si[k].start
     /\ \E k \in DOMAIN si : si[k].start = 0
     /\ \E k \in DOMAIN si : si[k].start + si[k].len = ss_table.meta_info.data_len
     /\ FramedLen(args.vec_mem_data) = ss_table.meta_info.data_len
\* C20 as stated: after create on any sorted non-empty batch the index has one entry per
\* part (ceil(n/p) entries) with the part's first key, offset and framed length, the score
\* spans the least index key to the last key, and the parts' ranges cover [0, data_len).
C20_IndexPerPart == ss_table.ok => IndexPerPart
\* C20 amended: the same for every sorted non-empty batch in which no two parts begin with
\* the same key.
C20_IndexPerPartDistinctFirstKeys == (ss_table.ok /\ FirstKeysDistinct) => IndexPerPart
\* a table of two parts was made from three commands, two of them with the same key in
\* the first part
C20_Witness ==
  /\ ss_table.ok /\ FirstKeysDistinct
  /\ Len(args.vec_mem_data) = 3 /\ args.config.part_size = 2
  /\ get_key_clone(args.vec_mem_data[1]) = get_key_clone(args.vec_mem_data[2])
  /\ Cardinality(DOMAIN ss_table.sparse_index) = 2

\* ------------------------------------------------------------------ C21
\* C21: the node behind a reference that get or get_or_insert returned stays allocated
\* for as long as the caller holds the reference, whatever the other threads call.
C21_ReferenceStaysAllocated ==
  \A t \in Threads : refs[t] # NULL => refs[t] \in live

\* ------------------------------------------------------------------ C22
\* C22 as stated: when is_empty returns true beside threads that put and remove, at some
\* instant between its call and its return all shards were empty together; when it
\* returns false, at some instant during the call a shard was not empty.
C22_IsEmptyAtOneInstant ==
  scan.pc = "done" => IF scan.ret THEN scan.all ELSE scan.some
\* C22 amended: when is_empty returns true, every shard was empty at the instant during
\* the call at which is_empty held that shard's lock (not all at one instant); when it
\* returns false, at some instant during the call a shard was not empty.
C22_IsEmptyShardByShard ==
  scan.pc = "done" =>
    IF scan.ret THEN \A j \in Shards : scan.seen[j] ELSE scan.some
\* is_empty returned true although the shards were never empty together during the call
C22_Witness ==
  /\ scan.pc = "done" /\ scan.ret /\ ~scan.all
  /\ \A j \in Shards : scan.seen[j]
====
